---- MODULE Spec2Model ----
(***************************************************************************)
(* Model of the resume retrieval engine of final_retriever.py: the quoted  *)
(* phrase pre-processor and Boolean parser (BooleanSearchParser), the text *)
(* normalizer (normalize), the document flattener (flatten_json), the      *)
(* recursive evaluator (evaluate_expression) and the search loop of main.  *)
(*                                                                         *)
(* Python strings are modelled as sequences of one-character strings, so   *)
(* that case folding, regular-expression scans and substring tests are     *)
(* computed character by character as the code computes them.              *)
(***************************************************************************)
EXTENDS Integers, Sequences, FiniteSets, TLC

VARIABLES
    search_query,    \* the query string handed to main / parse_query
    bsp,             \* the BooleanSearchParser: quoted_phrases, placeholder_counter
    parsed_query,    \* the expression tree (or NoTree)
    docs,            \* the corpus, list(coll.find({}))
    idx,             \* number of documents the search loop has processed
    matching_docs,   \* the result list of main
    warned,          \* indices of the documents reported by st.warning
    raw_text,        \* flatten_json's result (loop local of main)
    norm_text,       \* normalize's result (loop local of main)
    verdict,         \* evaluate_expression's result
    pc               \* position of the program

vars == <<search_query, bsp, parsed_query, docs, idx, matching_docs, warned,
          raw_text, norm_text, verdict, pc>>

----------------------------------------------------------------------------
(* Characters and the character classes the regular expressions use.       *)

LOWER == <<"a","b","c","d","e","f","g","h","i","j","k","l","m","n","o","p","q","r","s","t","u","v","w","x","y","z">>

UPPER == <<"A","B","C","D","E","F","G","H","I","J","K","L","M","N","O","P","Q","R","S","T","U","V","W","X","Y","Z">>

DIGITS == <<"0","1","2","3","4","5","6","7","8","9">>

\* The strings of the model are written over the characters of the tables
\* below: ASCII, Latin-1, and letters, digits, marks and signs of the Latin
\* Extended, IPA, Greek, Cyrillic, Armenian, Hebrew and Arabic blocks, each
\* with the class Python's Unicode database gives it.  The functions
\* CharClass and LowerMap are defined on these characters and on no other.

\* str.isalpha(), beyond a-z and A-Z
LETTERS ==
    <<"ª","µ","º","À","Á","Â","Ã","Ä","Å","Æ","Ç","È","É","Ê","Ë","Ì","Í","Î","Ï","Ð","Ñ","Ò","Ó","Ô",
      "Õ","Ö","Ø","Ù","Ú","Û","Ü","Ý","Þ","ß","à","á","â","ã","ä","å","æ","ç","è","é","ê","ë","ì","í",
      "î","ï","ð","ñ","ò","ó","ô","õ","ö","ø","ù","ú","û","ü","ý","þ","ÿ","ƀ","Ƃ","ƃ","Ƅ","ƅ","Ƈ","ƈ",
      "Ƌ","ƌ","ƍ","Ǝ","Ƒ","ƒ","ƕ","Ƙ","ƙ","ƚ","ƛ","ƞ","Ơ","ơ","Ƣ","ƣ","Ƥ","ƥ","Ʀ","Ƨ","ƨ","Ʃ","ƪ","ƫ",
      "Ƭ","ƭ","Ʈ","Ư","ư","Ʊ","Ʋ","Ƴ","ƴ","Ƶ","ƶ","Ʒ","Ƹ","ƹ","ƺ","ƻ","Ƽ","ƽ","ƾ","ƿ","ǀ","ǁ","ǂ","ǃ",
      "Ǆ","ǅ","ǆ","Ǉ","ǈ","ǉ","Ǌ","ǋ","ǌ","Ǎ","ǎ","Ǐ","ǐ","Ǒ","ǒ","Ǔ","ǔ","Ǖ","ǖ","Ǘ","ǘ","Ǚ","ǚ","Ǜ",
      "ǜ","ǝ","Ǟ","ǟ","Ǡ","ǡ","Ǣ","ǣ","Ǥ","ǥ","Ǧ","ǧ","Ǩ","ǩ","Ǫ","ǫ","Ǭ","ǭ","Ǯ","ǯ","ǰ","Ǳ","ǲ","ǳ",
      "Ǵ","ǵ","Ƕ","Ƿ","Ǹ","ǹ","Ǻ","ǻ","Ǽ","ǽ","Ǿ","ǿ","ʀ","ʁ","ʂ","ʃ","ʄ","ʅ","ʆ","ʇ","ʈ","ʉ","ʊ","ʋ",
      "ʌ","ʍ","ʎ","ʏ","ʐ","ʑ","ʒ","ʓ","ʔ","ʕ","ʖ","ʗ","ʘ","ʙ","ʚ","ʛ","ʜ","ʝ","ʞ","ʟ","ʠ","ʡ","ʢ","ʣ",
      "ʤ","ʥ","ʦ","ʧ","ʨ","ʩ","ʪ","ʫ","ʬ","ʭ","ʮ","ʯ","ʰ","ʱ","ʲ","ʳ","ʴ","ʵ","ʶ","ʷ","ʸ","ʹ","ʺ","ʻ",
      "ʼ","ʽ","ʾ","ʿ","ˀ","ˁ","ˆ","ˇ","ˈ","ˉ","ˊ","ˋ","ˌ","ˍ","ˎ","ˏ","ː","ˑ","ˠ","ˡ","ˢ","ˣ","ˤ","ˬ",
      "ˮ","Ά","Έ","Ή","Ί","Ό","Ύ","Ώ","ΐ","Α","Β","Γ","Δ","Ε","Ζ","Η","Θ","Ι","Κ","Λ","Μ","Ν","Ξ","Ο",
      "Π","Ρ","Σ","Τ","Υ","Φ","Χ","Ψ","Ω","Ϊ","Ϋ","ά","έ","ή","ί","ΰ","α","β","γ","δ","ε","ζ","η","θ",
      "ι","κ","λ","μ","ν","ξ","ο","π","ρ","ς","σ","τ","υ","φ","χ","ψ","ω","ϊ","ϋ","ό","ύ","ώ","Ϗ","ϐ",
      "ϑ","ϒ","ϓ","ϔ","ϕ","ϖ","ϗ","Ϙ","ϙ","Ϛ","ϛ","Ϝ","ϝ","Ϟ","ϟ","Ϡ","ϡ","Ϣ","ϣ","Ϥ","ϥ","Ϧ","ϧ","Ϩ",
      "ϩ","Ϫ","ϫ","Ϭ","ϭ","Ϯ","ϯ","ϰ","ϱ","ϲ","ϳ","ϴ","ϵ","Ϸ","ϸ","Ϲ","Ϻ","ϻ","ϼ","Ҁ","ҁ","Ҋ","ҋ","Ҍ",
      "ҍ","Ҏ","ҏ","Ґ","ґ","Ғ","ғ","Ҕ","ҕ","Җ","җ","Ҙ","ҙ","Қ","қ","Ҝ","ҝ","Ҟ","ҟ","Ҡ","ҡ","Ң","ң","Ҥ",
      "ҥ","Ҧ","ҧ","Ҩ","ҩ","Ҫ","ҫ","Ҭ","ҭ","Ү","ү","Ұ","ұ","Ҳ","ҳ","Ҵ","ҵ","Ҷ","ҷ","Ҹ","ҹ","Һ","һ","Ҽ",
      "ҽ","Ҿ","ҿ","Ӏ","Ӂ","ӂ","Ӄ","ӄ","Ӆ","ӆ","Ӈ","ӈ","Ӊ","ӊ","Ӌ","ӌ","Ӎ","ӎ","ӏ","Ӑ","ӑ","Ӓ","ӓ","Ӕ",
      "ӕ","Ӗ","ӗ","Ә","ә","Ӛ","ӛ","Ӝ","ӝ","Ӟ","ӟ","Ӡ","ӡ","Ӣ","ӣ","Ӥ","ӥ","Ӧ","ӧ","Ө","ө","Ӫ","ӫ","Ӭ",
      "ӭ","Ӯ","ӯ","Ӱ","ӱ","Ӳ","ӳ","Ӵ","ӵ","Ӷ","ӷ","Ӹ","ӹ","Ӻ","ӻ","Ӽ","ӽ","Ӿ","ӿ","ր","ց","ւ","փ","ք",
      "օ","ֆ","և","ֈ","א","ב","ג","ד","ה","ו","ז","ח","ט","י","ך","כ","ל","ם","מ","ן","נ","ס","ע","ף",
      "פ","ץ","צ","ק","ר","ש","ת","ׯ","װ","ױ","ײ","ڀ","ځ","ڂ","ڃ","ڄ","څ","چ","ڇ","ڈ","ډ","ڊ","ڋ","ڌ",
      "ڍ","ڎ","ڏ","ڐ","ڑ","ڒ","ړ","ڔ","ڕ","ږ","ڗ","ژ","ڙ","ښ","ڛ","ڜ","ڝ","ڞ","ڟ","ڠ","ڡ","ڢ","ڣ","ڤ",
      "ڥ","ڦ","ڧ","ڨ","ک","ڪ","ګ","ڬ","ڭ","ڮ","گ","ڰ","ڱ","ڲ","ڳ","ڴ","ڵ","ڶ","ڷ","ڸ","ڹ","ں","ڻ","ڼ",
      "ڽ","ھ","ڿ","ۀ","ہ","ۂ","ۃ","ۄ","ۅ","ۆ","ۇ","ۈ","ۉ","ۊ","ۋ","ی","ۍ","ێ","ۏ","ې","ۑ","ے","ۓ","ە",
      "ۥ","ۦ","ۮ","ۯ","ۺ","ۻ","ۼ","ۿ">>

\* str.isdigit(), beyond 0-9
OTHER_DIGITS == <<"²","³","¹","۰","۱","۲","۳","۴","۵","۶","۷","۸","۹">>

\* str.isnumeric() but not str.isdigit()
FRACTIONS == <<"¼","½","¾">>

\* str.isspace(): tab, line feed, vertical tab, form feed, carriage return,
\* U+001C to U+001F, space, U+0085, U+00A0, U+1680
WHITESPACE == <<"\t","\n","","\f","\r","","","",""," ",""," "," ">>

\* neither str.isalnum() nor str.isspace(): punctuation, signs and marks
SYMBOLS ==
    <<"\"","\\","!","#","$","%","&","'","(",")","*","+",",","-",".","/",":",";","<","=",">","?","@","[","]","^",
      "_","{","|","}","~","¡","¢","£","¤","¥","¦","§","¨","©","«","¬","­","®","¯","°","±","´","¶","·",
      "¸","»","¿","×","÷","˂","˃","˄","˅","˒","˓","˔","˕","˖","˗","˘","˙","˚","˛","˜","˝","˞","˟","˥",
      "˦","˧","˨","˩","˪","˫","˭","˯","˰","˱","˲","˳","˴","˵","˶","˷","˸","˹","˺","˻","˼","˽","˾","˿",
      "΄","΅","·","϶","҂","҃","҄","҅","҆","҇","҈","҉","։","֊","֍","֎","֏","֑","֒","֓","֔","֕","֖","֗",
      "֘","֙","֚","֛","֜","֝","֞","֟","֠","֡","֢","֣","֤","֥","֦","֧","֨","֩","֪","֫","֬","֭","֮","֯",
      "ְ","ֱ","ֲ","ֳ","ִ","ֵ","ֶ","ַ","ָ","ֹ","ֺ","ֻ","ּ","ֽ","־","ֿ","׀","ׁ","ׂ","׃","ׄ","ׅ","׆","ׇ",
      "׳","״","۔","ۖ","ۗ","ۘ","ۙ","ۚ","ۛ","ۜ","۝","۞","۟","۠","ۡ","ۢ","ۣ","ۤ","ۧ","ۨ","۩","۪","۫","۬",
      "ۭ","۽","۾">>

\* the letters beyond A-Z that str.lower() changes, and what it makes of
\* them (CAPITALS[i] becomes SMALLS[i])
CAPITALS ==
    <<"À","Á","Â","Ã","Ä","Å","Æ","Ç","È","É","Ê","Ë","Ì","Í","Î","Ï","Ð","Ñ","Ò","Ó","Ô","Õ","Ö","Ø",
      "Ù","Ú","Û","Ü","Ý","Þ","Ƃ","Ƅ","Ƈ","Ƌ","Ǝ","Ƒ","Ƙ","Ơ","Ƣ","Ƥ","Ʀ","Ƨ","Ʃ","Ƭ","Ʈ","Ư","Ʊ","Ʋ",
      "Ƴ","Ƶ","Ʒ","Ƹ","Ƽ","Ǆ","ǅ","Ǉ","ǈ","Ǌ","ǋ","Ǎ","Ǐ","Ǒ","Ǔ","Ǖ","Ǘ","Ǚ","Ǜ","Ǟ","Ǡ","Ǣ","Ǥ","Ǧ",
      "Ǩ","Ǫ","Ǭ","Ǯ","Ǳ","ǲ","Ǵ","Ƕ","Ƿ","Ǹ","Ǻ","Ǽ","Ǿ","Ά","Έ","Ή","Ί","Ό","Ύ","Ώ","Α","Β","Γ","Δ",
      "Ε","Ζ","Η","Θ","Ι","Κ","Λ","Μ","Ν","Ξ","Ο","Π","Ρ","Σ","Τ","Υ","Φ","Χ","Ψ","Ω","Ϊ","Ϋ","Ϗ","Ϙ",
      "Ϛ","Ϝ","Ϟ","Ϡ","Ϣ","Ϥ","Ϧ","Ϩ","Ϫ","Ϭ","Ϯ","ϴ","Ϸ","Ϲ","Ϻ","Ҁ","Ҋ","Ҍ","Ҏ","Ґ","Ғ","Ҕ","Җ","Ҙ",
      "Қ","Ҝ","Ҟ","Ҡ","Ң","Ҥ","Ҧ","Ҩ","Ҫ","Ҭ","Ү","Ұ","Ҳ","Ҵ","Ҷ","Ҹ","Һ","Ҽ","Ҿ","Ӏ","Ӂ","Ӄ","Ӆ","Ӈ",
      "Ӊ","Ӌ","Ӎ","Ӑ","Ӓ","Ӕ","Ӗ","Ә","Ӛ","Ӝ","Ӟ","Ӡ","Ӣ","Ӥ","Ӧ","Ө","Ӫ","Ӭ","Ӯ","Ӱ","Ӳ","Ӵ","Ӷ","Ӹ",
      "Ӻ","Ӽ","Ӿ">>

SMALLS ==
    <<"à","á","â","ã","ä","å","æ","ç","è","é","ê","ë","ì","í","î","ï","ð","ñ","ò","ó","ô","õ","ö","ø",
      "ù","ú","û","ü","ý","þ","ƃ","ƅ","ƈ","ƌ","ǝ","ƒ","ƙ","ơ","ƣ","ƥ","ʀ","ƨ","ʃ","ƭ","ʈ","ư","ʊ","ʋ",
      "ƴ","ƶ","ʒ","ƹ","ƽ","ǆ","ǆ","ǉ","ǉ","ǌ","ǌ","ǎ","ǐ","ǒ","ǔ","ǖ","ǘ","ǚ","ǜ","ǟ","ǡ","ǣ","ǥ","ǧ",
      "ǩ","ǫ","ǭ","ǯ","ǳ","ǳ","ǵ","ƕ","ƿ","ǹ","ǻ","ǽ","ǿ","ά","έ","ή","ί","ό","ύ","ώ","α","β","γ","δ",
      "ε","ζ","η","θ","ι","κ","λ","μ","ν","ξ","ο","π","ρ","σ","τ","υ","φ","χ","ψ","ω","ϊ","ϋ","ϗ","ϙ",
      "ϛ","ϝ","ϟ","ϡ","ϣ","ϥ","ϧ","ϩ","ϫ","ϭ","ϯ","θ","ϸ","ϲ","ϻ","ҁ","ҋ","ҍ","ҏ","ґ","ғ","ҕ","җ","ҙ",
      "қ","ҝ","ҟ","ҡ","ң","ҥ","ҧ","ҩ","ҫ","ҭ","ү","ұ","ҳ","ҵ","ҷ","ҹ","һ","ҽ","ҿ","ӏ","ӂ","ӄ","ӆ","ӈ",
      "ӊ","ӌ","ӎ","ӑ","ӓ","ӕ","ӗ","ә","ӛ","ӝ","ӟ","ӡ","ӣ","ӥ","ӧ","ө","ӫ","ӭ","ӯ","ӱ","ӳ","ӵ","ӷ","ӹ",
      "ӻ","ӽ","ӿ">>

SIGMA == "Σ"

SMALL_SIGMA == "σ"

FINAL_SIGMA == "ς"

\* the characters the Final_Sigma rule of str.lower() looks through
CASE_IGNORABLE ==
    <<"'",".",":","^","¨","­","¯","´","·","¸","ʰ","ʱ","ʲ","ʳ","ʴ","ʵ","ʶ","ʷ","ʸ","ʹ","ʺ","ʻ","ʼ","ʽ",
      "ʾ","ʿ","ˀ","ˁ","˂","˃","˄","˅","ˆ","ˇ","ˈ","ˉ","ˊ","ˋ","ˌ","ˍ","ˎ","ˏ","ː","ˑ","˒","˓","˔","˕",
      "˖","˗","˘","˙","˚","˛","˜","˝","˞","˟","ˠ","ˡ","ˢ","ˣ","ˤ","˥","˦","˧","˨","˩","˪","˫","ˬ","˭",
      "ˮ","˯","˰","˱","˲","˳","˴","˵","˶","˷","˸","˹","˺","˻","˼","˽","˾","˿","΄","΅","·","҃","҄","҅",
      "҆","҇","҈","҉","֑","֒","֓","֔","֕","֖","֗","֘","֙","֚","֛","֜","֝","֞","֟","֠","֡","֢","֣","֤",
      "֥","֦","֧","֨","֩","֪","֫","֬","֭","֮","֯","ְ","ֱ","ֲ","ֳ","ִ","ֵ","ֶ","ַ","ָ","ֹ","ֺ","ֻ","ּ",
      "ֽ","ֿ","ׁ","ׂ","ׄ","ׅ","ׇ","״","ۖ","ۗ","ۘ","ۙ","ۚ","ۛ","ۜ","۝","۟","۠","ۡ","ۢ","ۣ","ۤ","ۥ","ۦ",
      "ۧ","ۨ","۪","۫","۬","ۭ">>

\* the letters that have no case
UNCASED_LETTERS ==
    <<"ƻ","ǀ","ǁ","ǂ","ǃ","ʔ","ʹ","ʺ","ʻ","ʼ","ʽ","ʾ","ʿ","ˆ","ˇ","ˈ","ˉ","ˊ","ˋ","ˌ","ˍ","ˎ","ˏ","ː",
      "ˑ","ˬ","ˮ","א","ב","ג","ד","ה","ו","ז","ח","ט","י","ך","כ","ל","ם","מ","ן","נ","ס","ע","ף","פ",
      "ץ","צ","ק","ר","ש","ת","ׯ","װ","ױ","ײ","ڀ","ځ","ڂ","ڃ","ڄ","څ","چ","ڇ","ڈ","ډ","ڊ","ڋ","ڌ","ڍ",
      "ڎ","ڏ","ڐ","ڑ","ڒ","ړ","ڔ","ڕ","ږ","ڗ","ژ","ڙ","ښ","ڛ","ڜ","ڝ","ڞ","ڟ","ڠ","ڡ","ڢ","ڣ","ڤ","ڥ",
      "ڦ","ڧ","ڨ","ک","ڪ","ګ","ڬ","ڭ","ڮ","گ","ڰ","ڱ","ڲ","ڳ","ڴ","ڵ","ڶ","ڷ","ڸ","ڹ","ں","ڻ","ڼ","ڽ",
      "ھ","ڿ","ۀ","ہ","ۂ","ۃ","ۄ","ۅ","ۆ","ۇ","ۈ","ۉ","ۊ","ۋ","ی","ۍ","ێ","ۏ","ې","ۑ","ے","ۓ","ە","ۥ",
      "ۦ","ۮ","ۯ","ۺ","ۻ","ۼ","ۿ">>

Range(s) == {s[i] : i \in DOMAIN s}

AsciiLower == Range(LOWER)

AsciiUpper == Range(UPPER)

AlphaChars == AsciiLower \cup AsciiUpper \cup Range(LETTERS)

DigitChars == Range(DIGITS) \cup Range(OTHER_DIGITS)

NumericChars == Range(FRACTIONS)

SpaceChars == Range(WHITESPACE)

IgnorableChars == Range(CASE_IGNORABLE)

UncasedChars == Range(UNCASED_LETTERS)

Alphabet == AlphaChars \cup DigitChars \cup NumericChars \cup SpaceChars \cup Range(SYMBOLS)

\* the class of every character of the alphabet
CharClass ==
    [c \in Alphabet |->
        IF c \in AlphaChars THEN "alpha"
        ELSE IF c \in DigitChars THEN "digit"
        ELSE IF c \in NumericChars THEN "numeric"
        ELSE IF c \in SpaceChars THEN "space"
        ELSE "other"]

\* [a-z]
IsLower(c) == c \in AsciiLower

\* [A-Z]
IsUpper(c) == c \in AsciiUpper

\* str.isalpha()
IsAlpha(c) == CharClass[c] = "alpha"

\* str.isdigit()
IsDigit(c) == CharClass[c] = "digit"

\* str.isalnum(): isalpha, isdecimal, isdigit or isnumeric
IsAlnum(c) == CharClass[c] \in {"alpha", "digit", "numeric"}

\* \w
IsWord(c) == IsAlnum(c) \/ c = "_"

\* \s, and the whitespace of str.split() and str.strip()
IsSpace(c) == CharClass[c] = "space"

\* str.lower() of every character of the alphabet, taken alone
LowerMap ==
    [c \in Alphabet |->
        IF c \in AsciiUpper THEN LOWER[CHOOSE i \in DOMAIN UPPER : UPPER[i] = c]
        ELSE IF c \in Range(CAPITALS) THEN SMALLS[CHOOSE i \in DOMAIN CAPITALS : CAPITALS[i] = c]
        ELSE c]

\* str.lower() of a one-character string
LowerChar(c) == LowerMap[c]

\* the character is cased
IsCased(c) == IsAlpha(c) /\ c \notin UncasedChars

Max(S) == CHOOSE x \in S : \A y \in S : y <= x

Min(S) == CHOOSE x \in S : \A y \in S : x <= y

\* the capital sigma at i is in Final_Sigma context: looking through
\* case-ignorable characters, a cased letter comes before it and none after
FinalSigma(s, i) ==
    LET before == {j \in 1..(i - 1) : s[j] \notin IgnorableChars}
        after  == {j \in (i + 1)..Len(s) : s[j] \notin IgnorableChars}
    IN  /\ before # {}
        /\ IsCased(s[Max(before)])
        /\ (after = {} \/ ~IsCased(s[Min(after)]))

\* str.lower()
Lower(s) ==
    [i \in 1..Len(s) |->
        IF s[i] = SIGMA /\ FinalSigma(s, i) THEN FINAL_SIGMA ELSE LowerChar(s[i])]

\* s.startswith(p) at offset i (1-based): s[i .. i+len(p)-1] = p
StartsWithAt(s, i, p) == i + Len(p) - 1 <= Len(s) /\ SubSeq(s, i, i + Len(p) - 1) = p

\* s.startswith(p)
StartsWith(s, p) == StartsWithAt(s, 1, p)

\* p in s
Contains(s, p) == \E i \in 1..(Len(s) - Len(p) + 1) : StartsWithAt(s, i, p)

\* index just past the run of non-whitespace characters that contains i
RECURSIVE RunEnd(_, _)
RunEnd(s, i) == IF i > Len(s) \/ IsSpace(s[i]) THEN i ELSE RunEnd(s, i + 1)

\* index of the first character of the run of non-whitespace characters
\* that contains i
RECURSIVE RunStart(_, _)
RunStart(s, i) == IF i = 1 \/ IsSpace(s[i - 1]) THEN i ELSE RunStart(s, i - 1)

\* the indices of s, in order
Indices(s) == [i \in 1..Len(s) |-> i]

\* the characters of s at the indices that satisfy Keep, in order
KeepWhere(s, Keep(_)) ==
    LET kept == SelectSeq(Indices(s), Keep)
    IN  [k \in 1..Len(kept) |-> s[kept[k]]]

\* the concatenation of pieces[lo], ..., pieces[hi]
RECURSIVE ConcatRange(_, _, _)
ConcatRange(pieces, lo, hi) ==
    IF lo > hi THEN <<>>
    ELSE IF lo = hi THEN pieces[lo]
    ELSE LET mid == (lo + hi) \div 2
         IN  ConcatRange(pieces, lo, mid) \o ConcatRange(pieces, mid + 1, hi)

\* "".join(pieces)
ConcatAll(pieces) == ConcatRange(pieces, 1, Len(pieces))

\* sep.join(parts)
Join(parts, sep) ==
    ConcatAll([k \in 1..Len(parts) |-> IF k = 1 THEN parts[k] ELSE sep \o parts[k]])

\* str.split(): the maximal runs of non-whitespace characters, in order
Split(s) ==
    LET starts == SelectSeq(Indices(s),
                      LAMBDA i : ~IsSpace(s[i]) /\ (i = 1 \/ IsSpace(s[i - 1])))
    IN  [k \in 1..Len(starts) |-> SubSeq(s, starts[k], RunEnd(s, starts[k]) - 1)]

\* str.replace(c, ""): every occurrence of the character c removed
RemoveChar(s, c) == SelectSeq(s, LAMBDA x : x # c)

\* str(n) for a natural number n
RECURSIVE IntToStr(_)
IntToStr(n) == IF n < 10 THEN <<DIGITS[n + 1]>> ELSE IntToStr(n \div 10) \o <<DIGITS[(n % 10) + 1]>>

----------------------------------------------------------------------------
(* The regular expression "([^"]+)" of preprocess_query and normalize.     *)

QUOTE == "\""

\* index of the first quote character at or after i, or Len(s)+1
NextQuote(s, i) ==
    LET later == {j \in i..Len(s) : s[j] = QUOTE}
    IN  IF later = {} THEN Len(s) + 1 ELSE Min(later)

\* the regular expression matches at i: a quote, one or more non-quote
\* characters, a quote
QuotedAt(s, i) ==
    /\ i <= Len(s)
    /\ s[i] = QUOTE
    /\ i + 1 <= Len(s)
    /\ s[i + 1] # QUOTE
    /\ NextQuote(s, i + 1) <= Len(s)

\* the leftmost non-overlapping matches from i on, as <<first, last>> index
\* pairs: a match can only start at a quote, and the scan resumes after the
\* closing quote of a match, or after a quote that starts none
RECURSIVE QuotedSpansFrom(_, _)
QuotedSpansFrom(s, i) ==
    LET q == NextQuote(s, i)
    IN  IF q > Len(s) THEN <<>>
        ELSE IF QuotedAt(s, q)
             THEN <<<<q, NextQuote(s, q + 1)>>>> \o QuotedSpansFrom(s, NextQuote(s, q + 1) + 1)
             ELSE QuotedSpansFrom(s, q + 1)

\* re.findall(r'"([^"]+)"', s): group 1 of every match
FindQuoted(s) ==
    LET spans == QuotedSpansFrom(s, 1)
    IN  [k \in 1..Len(spans) |-> SubSeq(s, spans[k][1] + 1, spans[k][2] - 1)]

----------------------------------------------------------------------------
(* normalize                                                               *)

\* 1) re.sub(r'([a-z])([A-Z])', r'\1 \2', text): a match ends in an
\* uppercase letter, which starts no other match, so matches never overlap
SplitCamelCase(s) ==
    ConcatAll([i \in 1..Len(s) |->
        IF i < Len(s) /\ IsLower(s[i]) /\ IsUpper(s[i + 1]) THEN <<s[i], " ">> ELSE <<s[i]>>])

DOT_NET == <<".","n","e","t">>

DOTNET_WORD == <<" ","d","o","t","n","e","t"," ">>

\* (?<![\w@])\.net(?![\w.]) matches at i
DotNetAt(s, i) ==
    /\ i >= 1
    /\ StartsWithAt(s, i, DOT_NET)
    /\ (i = 1 \/ ~(IsWord(s[i - 1]) \/ s[i - 1] = "@"))
    /\ (i + Len(DOT_NET) > Len(s)
          \/ ~(IsWord(s[i + Len(DOT_NET)]) \/ s[i + Len(DOT_NET)] = "."))

\* re.sub(r'(?<![\w@])\.net(?![\w.])', ' dotnet ', text): the lookbehind
\* keeps two matches from overlapping
RepairDotNet(s) ==
    ConcatAll([i \in 1..Len(s) |->
        IF DotNetAt(s, i) THEN DOTNET_WORD
        ELSE IF \E j \in (i - Len(DOT_NET) + 1)..(i - 1) : DotNetAt(s, j) THEN <<>>
        ELSE <<s[i]>>])

\* i lies in a match of \S+@\S+: the greedy match is the whole run of
\* non-whitespace characters around an "@" that has a character of the run
\* on either side
InEmail(s, i) ==
    /\ ~IsSpace(s[i])
    /\ \E p \in (RunStart(s, i) + 1)..(RunEnd(s, i) - 2) : s[p] = "@"

\* re.sub(r'\S+@\S+', '', text)
RemoveEmails(s) == KeepWhere(s, LAMBDA i : ~InEmail(s, i))

HTTP == <<"h","t","t","p",":","/","/">>

HTTPS == <<"h","t","t","p","s",":","/","/">>

WWW == <<"w","w","w",".">>

\* prefix p at i followed by at least one non-whitespace character
PrefixThenNonSpace(s, i, p) ==
    /\ StartsWithAt(s, i, p)
    /\ i + Len(p) <= Len(s)
    /\ ~IsSpace(s[i + Len(p)])

\* https?://\S+|www\.\S+ matches at i
UrlAt(s, i) ==
    \/ PrefixThenNonSpace(s, i, HTTP)
    \/ PrefixThenNonSpace(s, i, HTTPS)
    \/ PrefixThenNonSpace(s, i, WWW)

\* i lies in a match of the URL pattern: a match runs from its start to the
\* end of the run of non-whitespace characters
InUrl(s, i) ==
    /\ ~IsSpace(s[i])
    /\ \E j \in RunStart(s, i)..i : UrlAt(s, j)

\* re.sub(r'https?://\S+|www\.\S+', '', text)
RemoveUrls(s) == KeepWhere(s, LAMBDA i : ~InUrl(s, i))

\* 3) for phrase in quoted_phrases: text += " " + phrase.replace(" ", "")
AppendNoSpacePhrases(s, phrases) ==
    s \o ConcatAll([k \in 1..Len(phrases) |-> <<" ">> \o RemoveChar(phrases[k], " ")])

\* 4) text.replace('"', '') then re.sub(r'[^\w\s]', ' ', text)
StripSymbols(s) ==
    LET t == RemoveChar(s, QUOTE)
    IN  [i \in 1..Len(t) |-> IF IsWord(t[i]) \/ IsSpace(t[i]) THEN t[i] ELSE " "]

\* 5a) for i in range(len(words) - 1): text += " " + words[i] + words[i+1]
AppendBigrams(s, words) ==
    s \o ConcatAll([i \in 1..(Len(words) - 1) |-> <<" ">> \o words[i] \o words[i + 1]])

HALF_SPLIT_MIN == 8

\* f" {tok[:mid]} {tok[mid:]}" with mid = len(tok) // 2
Halves(tok) ==
    LET mid == Len(tok) \div 2
    IN  <<" ">> \o SubSeq(tok, 1, mid) \o <<" ">> \o SubSeq(tok, mid + 1, Len(tok))

\* 5b) for tok in words: if len(tok) > 8: text += f" {tok[:mid]} {tok[mid:]}"
AppendHalves(s, words) ==
    s \o ConcatAll([k \in 1..Len(words) |->
             IF Len(words[k]) > HALF_SPLIT_MIN THEN Halves(words[k]) ELSE <<>>])

\* re.sub(r'\s+', ' ', text): one space for every run of whitespace
CollapseSpaces(s) ==
    LET kept == SelectSeq(Indices(s), LAMBDA i : ~(IsSpace(s[i]) /\ i > 1 /\ IsSpace(s[i - 1])))
    IN  [k \in 1..Len(kept) |-> IF IsSpace(s[kept[k]]) THEN " " ELSE s[kept[k]]]

\* str.strip()
Strip(s) ==
    LET solid == {i \in 1..Len(s) : ~IsSpace(s[i])}
    IN  IF solid = {} THEN <<>>
        ELSE SubSeq(s, Min(solid), Max(solid))

normalize(text) ==
    LET t1 == SplitCamelCase(text)
        t2 == RemoveUrls(RemoveEmails(RepairDotNet(Lower(t1))))
        t3 == AppendNoSpacePhrases(t2, FindQuoted(t2))
        t4 == StripSymbols(t3)
        words == Split(t4)
        t5 == AppendHalves(AppendBigrams(t4, words), words)
    IN  Strip(CollapseSpaces(t5))

----------------------------------------------------------------------------
(* Raw documents and flatten_json.  A document value is a record            *)
(*   t     : "str", "dict", "list", or a non-string leaf kind               *)
(*           ("num", "bool", "null", "other")                               *)
(*   s     : the characters of a string leaf; for a non-string leaf, the    *)
(*           text str() would give it                                       *)
(*   keys  : the keys of a dict, in iteration order                         *)
(*   items : the values of a dict in iteration order / the items of a list  *)

DStr(s) == [t |-> "str", s |-> s, keys |-> <<>>, items |-> <<>>]

DNum(s) == [t |-> "num", s |-> s, keys |-> <<>>, items |-> <<>>]

DNull == [t |-> "null", s |-> <<"N","o","n","e">>, keys |-> <<>>, items |-> <<>>]

DOther(s) == [t |-> "other", s |-> s, keys |-> <<>>, items |-> <<>>]

DList(items) == [t |-> "list", s |-> <<>>, keys |-> <<>>, items |-> items]

DDict(keys, items) == [t |-> "dict", s |-> <<>>, keys |-> keys, items |-> items]

LeafPartsStringified(x) == <<x.s>>

\* recurse on a leaf: a str is appended to parts, anything else is skipped
LeafParts(x) == IF x.t = "str" THEN <<x.s>> ELSE <<>>

\* recurse(x): the strings appended to parts, in order
RECURSIVE recurse(_)
recurse(x) ==
    IF x.t = "dict" \/ x.t = "list"
    THEN ConcatAll([k \in 1..Len(x.items) |-> recurse(x.items[k])])
    ELSE LeafParts(x)

flatten_json(obj) == Join(recurse(obj), <<" ">>)

\* display_json up to st.json: if "_id" in data: del data["_id"]
display_json(data) ==
    LET kept == SelectSeq(Indices(data.keys), LAMBDA k : data.keys[k] # "_id")
    IN  IF Len(kept) = Len(data.keys) THEN data
        ELSE DDict([k \in 1..Len(kept) |-> data.keys[kept[k]]],
                   [k \in 1..Len(kept) |-> data.items[kept[k]]])

----------------------------------------------------------------------------
(* Expression trees of boolean.py and evaluate_expression.                 *)

Symbol(obj) == [kind |-> "Symbol", obj |-> obj, args |-> <<>>]

Node(kind, args) == [kind |-> kind, obj |-> <<>>, args |-> args]

NoTree == Node("none", <<>>)

QUOTED_PHRASE_ == <<"Q","U","O","T","E","D","_","P","H","R","A","S","E","_">>

\* the position between text[k] and text[k+1] is a \b word boundary
WordBoundary(text, k) ==
    (k >= 1 /\ IsWord(text[k])) # (k < Len(text) /\ IsWord(text[k + 1]))

\* re.search(r'\b' + re.escape(term) + r'\b', text)
WordBoundaryMatch(term, text) ==
    \E i \in 1..(Len(text) - Len(term) + 1) :
        /\ StartsWithAt(text, i, term)
        /\ WordBoundary(text, i - 1)
        /\ WordBoundary(text, i + Len(term) - 1)

\* a Symbol branch with the word-boundary tier only
TermMatchesNoFallback(obj, text, quoted_phrases) == WordBoundaryMatch(Lower(obj), text)

\* the Symbol branch of evaluate_expression
TermMatches(obj, text, quoted_phrases) ==
    LET term == Lower(obj)
    IN  IF StartsWith(term, QUOTED_PHRASE_) /\ term \in DOMAIN quoted_phrases
        THEN Contains(text, Lower(quoted_phrases[term]))
        ELSE IF WordBoundaryMatch(term, text) THEN TRUE
        ELSE Contains(text, term)

\* any(...)
PyAny(vals) == \E k \in DOMAIN vals : vals[k]

\* an evaluator whose AND branch asks for any child instead of all
PyAllAsAny(vals) == \E k \in DOMAIN vals : vals[k]

\* all(...)
PyAll(vals) == \A k \in DOMAIN vals : vals[k]

RECURSIVE evaluate_expression(_, _, _)
evaluate_expression(expr, text, quoted_phrases) ==
    IF expr.kind = "Symbol" THEN TermMatches(expr.obj, text, quoted_phrases)
    ELSE IF expr.kind = "AND"
         THEN PyAll([k \in 1..Len(expr.args) |->
                        evaluate_expression(expr.args[k], text, quoted_phrases)])
    ELSE IF expr.kind = "OR"
         THEN PyAny([k \in 1..Len(expr.args) |->
                        evaluate_expression(expr.args[k], text, quoted_phrases)])
    ELSE FALSE

----------------------------------------------------------------------------
(* BooleanSearchParser: preprocess_query                                   *)

\* BooleanSearchParser.__init__ (the algebra itself holds no state)
NewParser == [quoted_phrases |-> <<>>, placeholder_counter |-> 0]

\* f"QUOTED_PHRASE_{self.placeholder_counter}"
Placeholder(n) == QUOTED_PHRASE_ \o IntToStr(n)

\* replace_quoted: record the phrase under a fresh placeholder
replace_quoted(self, phrase) ==
    [quoted_phrases |-> (Placeholder(self.placeholder_counter) :> phrase) @@ self.quoted_phrases,
     placeholder_counter |-> self.placeholder_counter + 1]

\* re.sub(r'"([^"]+)"', replace_quoted, query) from match k on; from is the
\* index after the previous match.  Gives the parser and the rest of the
\* substituted string.
RECURSIVE SubQuoted(_, _, _, _, _)
SubQuoted(self, query, spans, k, from) ==
    IF k > Len(spans)
    THEN [self |-> self, out |-> SubSeq(query, from, Len(query))]
    ELSE LET phrase == SubSeq(query, spans[k][1] + 1, spans[k][2] - 1)
             rest   == SubQuoted(replace_quoted(self, phrase), query, spans, k + 1,
                                 spans[k][2] + 1)
         IN  [self |-> rest.self,
              out  |-> SubSeq(query, from, spans[k][1] - 1)
                         \o Placeholder(self.placeholder_counter) \o rest.out]

preprocess_query(self, query) == SubQuoted(self, query, QuotedSpansFrom(query, 1), 1, 1)

----------------------------------------------------------------------------
(* BooleanAlgebra.parse of the boolean.py library, as parse_query uses it: *)
(* tokenize, then build the tree on a stack of open operations.            *)

\* TOKENS[tok.lower()]: the token type of a reserved word or character
TokenType(tok) ==
    LET w == Lower(tok)
    IN  IF w \in {<<"*">>, <<"&">>, <<"a","n","d">>} THEN "AND"
        ELSE IF w \in {<<"+">>, <<"|">>, <<"o","r">>} THEN "OR"
        ELSE IF w \in {<<"~">>, <<"!">>, <<"n","o","t">>} THEN "NOT"
        ELSE IF w \in {<<"(">>, <<"[">>} THEN "LPAR"
        ELSE IF w \in {<<")">>, <<"]">>} THEN "RPAR"
        ELSE IF w \in {<<"t","r","u","e">>, <<"1">>} THEN "TRUE"
        ELSE IF w \in {<<"f","a","l","s","e">>, <<"0">>, <<"n","o","n","e">>} THEN "FALSE"
        ELSE "none"

\* index just past the symbol that starts at i: letters, digits, ".", ":", "_"
RECURSIVE SymbolEnd(_, _)
SymbolEnd(s, i) ==
    IF i <= Len(s) /\ (IsAlnum(s[i]) \/ s[i] \in {".", ":", "_"})
    THEN SymbolEnd(s, i + 1) ELSE i

\* tokenize: the tokens from i on; space, tab, carriage return and line feed
\* are passed over, and any other unknown character ends the sequence with an
\* ERROR token (the generator raises ParseError there)
RECURSIVE TokenizeFrom(_, _)
TokenizeFrom(s, i) ==
    IF i > Len(s) THEN <<>>
    ELSE LET sym  == IsAlpha(s[i]) \/ s[i] = "_"
             stop == IF sym THEN SymbolEnd(s, i + 1) ELSE i + 1
             tok  == SubSeq(s, i, stop - 1)
             type == TokenType(tok)
         IN  IF type # "none" THEN <<[type |-> type, str |-> tok]>> \o TokenizeFrom(s, stop)
             ELSE IF sym THEN <<[type |-> "SYMBOL", str |-> tok]>> \o TokenizeFrom(s, stop)
             ELSE IF s[i] \in {" ", "\t", "\r", "\n"} THEN TokenizeFrom(s, stop)
             ELSE <<[type |-> "ERROR", str |-> tok]>>

tokenize(s) == TokenizeFrom(s, 1)

\* precedence = {NOT: 5, AND: 10, OR: 15, TOKEN_LPAR: 20}
Precedence(op) == CASE op = "NOT" -> 5 [] op = "AND" -> 10 [] op = "OR" -> 15 [] op = "LPAR" -> 20

is_sym(type) == type \in {"SYMBOL", "TRUE", "FALSE"}

is_operator(type) == type \in {"AND", "OR"}

\* The parser's ast is the list [parent, operation, arg, ...]; the chain of
\* parents is kept here as a stack of frames, the current ast on top, and
\* the bottom frame is [None, None, ...].
Frame(op, args) == [op |-> op, args |-> args]

Failed == [ok |-> FALSE, stack |-> <<>>]

Built(stack) == [ok |-> TRUE, stack |-> stack]

Top(stack) == stack[Len(stack)]

Pop(stack) == SubSeq(stack, 1, Len(stack) - 1)

\* the stack with top replaced
SetTop(stack, frame) == Append(Pop(stack), frame)

\* ast[1](*ast[2:]) succeeds: NOT takes one argument, AND and OR two or more,
\* and TOKEN_LPAR is not callable
CanApply(frame) ==
    \/ frame.op = "NOT" /\ Len(frame.args) = 1
    \/ frame.op \in {"AND", "OR"} /\ Len(frame.args) >= 2

Apply(frame) == Node(frame.op, frame.args)

\* ast[0].append(ast[1](*ast[2:])); ast = ast[0]
Fold(stack) ==
    LET below == stack[Len(stack) - 1]
    IN  SetTop(Pop(stack), Frame(below.op, Append(below.args, Apply(Top(stack)))))

\* _start_operation(ast, operation, precedence)
RECURSIVE start_operation(_, _)
start_operation(stack, operation) ==
    LET ast == Top(stack)
    IN  IF ast.op = "NONE" THEN Built(SetTop(stack, Frame(operation, ast.args)))
        ELSE IF Precedence(ast.op) > Precedence(operation)
             THEN IF Len(ast.args) = 0 THEN Failed
                  ELSE Built(Append(SetTop(stack, Frame(ast.op, Pop(ast.args))),
                                    Frame(operation, <<Top(ast.args)>>)))
        ELSE IF Precedence(ast.op) = Precedence(operation) THEN Built(stack)
        ELSE IF ~CanApply(ast) THEN Failed
        ELSE IF Len(stack) = 1 THEN Built(<<Frame(operation, <<Apply(ast)>>)>>)
        ELSE start_operation(Fold(stack), operation)

\* the TOKEN_RPAR branch: close operations down to the opening parenthesis
RECURSIVE close_parens(_)
close_parens(stack) ==
    LET ast == Top(stack)
    IN  IF Len(stack) = 1 THEN Failed
        ELSE IF ast.op = "LPAR"
             THEN IF Len(ast.args) = 0 THEN Failed
                  ELSE LET below == stack[Len(stack) - 1]
                       IN  Built(SetTop(Pop(stack),
                                        Frame(below.op, Append(below.args, ast.args[1]))))
        ELSE IF ~CanApply(ast) THEN Failed
        ELSE close_parens(Fold(stack))

\* one iteration of the token loop of parse; prev is the previous token type
\* ("none" for the first token)
parse_token(stack, type, str, prev) ==
    IF type = "ERROR" THEN Failed
    ELSE IF prev # "none" /\ is_sym(prev) /\ is_sym(type) THEN Failed
    ELSE IF prev # "none" /\ is_operator(prev) /\ (is_operator(type) \/ type = "RPAR") THEN Failed
    ELSE IF prev = "none" /\ is_operator(type) THEN Failed
    ELSE IF type = "SYMBOL"
         THEN Built(SetTop(stack, Frame(Top(stack).op, Append(Top(stack).args, Symbol(str)))))
    ELSE IF type \in {"TRUE", "FALSE"}
         THEN Built(SetTop(stack, Frame(Top(stack).op, Append(Top(stack).args, Node(type, <<>>)))))
    ELSE IF type = "NOT" THEN Built(Append(stack, Frame("NOT", <<>>)))
    ELSE IF type \in {"AND", "OR"} THEN start_operation(stack, type)
    ELSE IF type = "LPAR"
         THEN IF prev # "none" /\ prev \notin {"NOT", "AND", "OR", "LPAR"} THEN Failed
              ELSE Built(Append(stack, Frame("LPAR", <<>>)))
    ELSE close_parens(stack)

\* the token loop of parse from token k on
RECURSIVE parse_tokens(_, _, _)
parse_tokens(stack, toks, k) ==
    IF k > Len(toks) THEN Built(stack)
    ELSE LET step == parse_token(stack, toks[k].type, toks[k].str,
                                 IF k = 1 THEN "none" ELSE toks[k - 1].type)
         IN  IF step.ok THEN parse_tokens(step.stack, toks, k + 1) ELSE Failed

\* the closing loop of parse: fold the open operations into one expression
RECURSIVE finish_parse(_)
finish_parse(stack) ==
    LET ast == Top(stack)
    IN  IF Len(stack) = 1
        THEN IF ast.op = "NONE"
             THEN IF Len(ast.args) = 1 THEN [ok |-> TRUE, tree |-> ast.args[1]]
                  ELSE [ok |-> FALSE, tree |-> NoTree]
             ELSE IF CanApply(ast) THEN [ok |-> TRUE, tree |-> Apply(ast)]
                  ELSE [ok |-> FALSE, tree |-> NoTree]
        ELSE IF CanApply(ast) THEN finish_parse(Fold(stack))
        ELSE [ok |-> FALSE, tree |-> NoTree]

\* self.algebra.parse(processed_query): the tree, or ok = FALSE when
\* boolean.py raises
algebra_parse(expr) ==
    LET built == parse_tokens(<<Frame("NONE", <<>>)>>, tokenize(expr), 1)
    IN  IF built.ok THEN finish_parse(built.stack) ELSE [ok |-> FALSE, tree |-> NoTree]

parse_query_keeping_table(self, query) ==
    LET pre    == preprocess_query(self, query)
        parsed == algebra_parse(pre.out)
    IN  [self |-> pre.self, ok |-> parsed.ok, tree |-> parsed.tree]

\* BooleanSearchParser.parse_query: ok = FALSE stands for the ValueError
parse_query(self, query) ==
    LET pre    == preprocess_query(NewParser, query)
        parsed == algebra_parse(pre.out)
    IN  [self |-> pre.self, ok |-> parsed.ok, tree |-> parsed.tree]

----------------------------------------------------------------------------
(* main: query parsing (lines 229-238), the search loop (lines 256-266)    *)
(* and the details view (line 362)                                         *)

\* 'AND' in search_query or 'OR' in search_query or 'NOT' in search_query
\* or '"' in search_query
NeedsParser(query) ==
    \/ Contains(query, <<"A","N","D">>)
    \/ Contains(query, <<"O","R">>)
    \/ Contains(query, <<"N","O","T">>)
    \/ Contains(query, <<QUOTE>>)

\* the query-parsing block of main on a parser: the parser afterwards, the
\* tree, and ok = FALSE when parse_query raised
main_parse(self, query) ==
    IF NeedsParser(query) THEN parse_query(self, query)
    ELSE [self |-> self, ok |-> TRUE, tree |-> Symbol(Lower(query))]

CollectFirst(matching, doc, matched) == IF matched THEN <<doc>> \o matching ELSE matching

\* if evaluate_expression(...): matching_docs.append(doc)
Collect(matching, doc, matched) == IF matched THEN Append(matching, doc) ELSE matching

----------------------------------------------------------------------------
(* Inputs                                                                  *)

Q_MachineLearning == <<"M","a","c","h","i","n","e","L","e","a","r","n","i","n","g">>

Q_machinelearning == <<"m","a","c","h","i","n","e","l","e","a","r","n","i","n","g">>

Q_MachineAndLearning == <<"(","M","a","c","h","i","n","e"," ","A","N","D"," ","L","e","a","r","n","i","n","g",")">>

Q_PhraseMachineLearning == <<"\"","M","a","c","h","i","n","e"," ","L","e","a","r","n","i","n","g","\"">>

Q_NotJava == <<"N","O","T"," ","j","a","v","a">>

Q_program == <<"p","r","o","g","r","a","m">>

Q_PythonDjangoFlask == <<"P","y","t","h","o","n"," ","A","N","D"," ","(","D","j","a","n","g","o"," ","O","R"," ","F","l","a","s","k",")">>

Q_Dangling == <<"j","a","v","a"," ","A","N","D">>

Q_Ecole == <<"É","c","o","l","e">>

Queries ==
    {<<>>, Q_MachineLearning, Q_machinelearning, Q_MachineAndLearning,
     Q_PhraseMachineLearning, Q_NotJava, Q_program, Q_PythonDjangoFlask, Q_Dangling,
     Q_Ecole}

\* str(ObjectId(...)) of the n-th document of the collection
ObjectId(n) == DOther(<<"6","5","f">> \o IntToStr(n))

\* {"_id": ObjectId(...), "skills": ["Machine Learning"]}
Doc_SkillPhrase ==
    DDict(<<"_id", "skills">>, <<ObjectId(0), DList(<<DStr(<<"M","a","c","h","i","n","e"," ","L","e","a","r","n","i","n","g">>)>>)>>)

\* {"_id": ObjectId(...), "skills": ["learning", "machine"]}
Doc_WordsApart ==
    DDict(<<"_id", "skills">>, <<ObjectId(1), DList(<<DStr(<<"l","e","a","r","n","i","n","g">>), DStr(<<"m","a","c","h","i","n","e">>)>>)>>)

\* {"_id": ObjectId(...), "summary": "i know java programming", "years": 7}
Doc_Java ==
    DDict(<<"_id", "summary", "years">>, <<ObjectId(2), DStr(<<"i"," ","k","n","o","w"," ","j","a","v","a"," ","p","r","o","g","r","a","m","m","i","n","g">>), DNum(<<"7">>)>>)

\* {"_id": ObjectId(...), "skills": ["Python", "Django"]}
Doc_Python ==
    DDict(<<"_id", "skills">>, <<ObjectId(3), DList(<<DStr(<<"P","y","t","h","o","n">>), DStr(<<"D","j","a","n","g","o">>)>>)>>)

\* {"_id": ObjectId(...), "name": "MachineLearning"}
Doc_Camel == DDict(<<"_id", "name">>, <<ObjectId(4), DStr(<<"M","a","c","h","i","n","e","L","e","a","r","n","i","n","g">>)>>)

\* {"_id": ObjectId(...), "name": "École Café"}
Doc_Ecole == DDict(<<"_id", "name">>, <<ObjectId(5), DStr(<<"É","c","o","l","e"," ","C","a","f","é">>)>>)

Docs == {Doc_SkillPhrase, Doc_WordsApart, Doc_Java, Doc_Python, Doc_Camel, Doc_Ecole}

MaxDocs == 2

\* the sequences over S of length at most n
SeqsUpTo(S, n) == UNION {[1..k -> S] : k \in 0..n}

\* a collection holds a document once: _id is unique
Corpora == {c \in SeqsUpTo(Docs, MaxDocs) : \A i, j \in DOMAIN c : c[i] = c[j] => i = j}

\* where processing a document can raise
Stages == {"flatten", "normalize", "evaluate"}

----------------------------------------------------------------------------
(* Spec: one run of main                                                   *)

Init ==
    /\ search_query \in Queries
    /\ bsp = NewParser
    /\ parsed_query = NoTree
    /\ docs = <<>>
    /\ idx = 0
    /\ matching_docs = <<>>
    /\ warned = <<>>
    /\ raw_text = <<>>
    /\ norm_text = <<>>
    /\ verdict = FALSE
    /\ pc = "start"

\* lines 206-238: no query, or the query parsed (or refused)
ParseQuery ==
    /\ pc = "start"
    /\ IF search_query = <<>>
       THEN /\ pc' = "no_query"
            /\ UNCHANGED <<bsp, parsed_query>>
       ELSE LET r == main_parse(bsp, search_query)
            IN  /\ bsp' = r.self
                /\ parsed_query' = r.tree
                /\ pc' = IF r.ok THEN "load" ELSE "parse_error"
    /\ UNCHANGED <<search_query, docs, idx, matching_docs, warned, raw_text, norm_text, verdict>>

\* lines 241-246: docs = list(coll.find({}))
LoadDocs ==
    /\ pc = "load"
    /\ \E corpus \in Corpora : docs' = corpus
    /\ pc' = "scan"
    /\ UNCHANGED <<search_query, bsp, parsed_query, idx, matching_docs, warned,
                   raw_text, norm_text, verdict>>

\* lines 247-249: the database could not be read
LoadFails ==
    /\ pc = "load"
    /\ pc' = "load_error"
    /\ UNCHANGED <<search_query, bsp, parsed_query, docs, idx, matching_docs, warned,
                   raw_text, norm_text, verdict>>

\* lines 258-263 and 266: one document flattened, normalized, evaluated and
\* collected
SearchStep ==
    /\ pc = "scan"
    /\ idx < Len(docs)
    /\ LET doc  == docs[idx + 1]
           raw  == flatten_json(doc)
           norm == normalize(raw)
           v    == evaluate_expression(parsed_query, norm, bsp.quoted_phrases)
       IN  /\ raw_text' = raw
           /\ norm_text' = norm
           /\ verdict' = v
           /\ matching_docs' = Collect(matching_docs, doc, v)
    /\ idx' = idx + 1
    /\ UNCHANGED <<search_query, bsp, parsed_query, docs, warned, pc>>

SearchStepPropagates ==
    /\ pc = "scan"
    /\ idx < Len(docs)
    /\ pc' = "crashed"
    /\ UNCHANGED <<search_query, bsp, parsed_query, docs, idx, matching_docs, warned,
                   raw_text, norm_text, verdict>>

\* lines 258-266 when flatten_json, normalize or evaluate_expression raises:
\* the except branch warns and the loop goes on
SearchStepRaises ==
    /\ pc = "scan"
    /\ idx < Len(docs)
    /\ \E stage \in Stages :
          LET raw == flatten_json(docs[idx + 1])
          IN  /\ raw_text' = IF stage = "flatten" THEN raw_text ELSE raw
              /\ norm_text' = IF stage = "evaluate" THEN normalize(raw) ELSE norm_text
    /\ warned' = Append(warned, idx + 1)
    /\ idx' = idx + 1
    /\ UNCHANGED <<search_query, bsp, parsed_query, docs, matching_docs, verdict, pc>>

\* line 268 on: the loop is over and the results are shown
Finish ==
    /\ pc = "scan"
    /\ idx = Len(docs)
    /\ pc' = "done"
    /\ UNCHANGED <<search_query, bsp, parsed_query, docs, idx, matching_docs, warned,
                   raw_text, norm_text, verdict>>

\* line 362: display_json(doc) for a document of the results whose details
\* are shown; doc is the very object held by docs and matching_docs
DisplayJson ==
    /\ pc = "done"
    /\ \E k \in 1..Len(matching_docs) :
          LET doc == matching_docs[k]
          IN  /\ matching_docs' = [matching_docs EXCEPT ![k] = display_json(doc)]
              /\ docs' = [i \in 1..Len(docs) |->
                            IF docs[i] = doc THEN display_json(doc) ELSE docs[i]]
    /\ UNCHANGED <<search_query, bsp, parsed_query, idx, warned, raw_text, norm_text,
                   verdict, pc>>

Next ==
    ParseQuery \/ LoadDocs \/ LoadFails \/ SearchStep \/ SearchStepRaises \/ Finish
        \/ DisplayJson

Spec == Init /\ [][Next]_vars

----------------------------------------------------------------------------
(* SpecParser: parse_query and preprocess_query called again and again on  *)
(* one parser                                                              *)

MaxPieces == 4

\* the fragments the parser's queries are put together from
Pieces == {<<"\"","a"," ","b","\"">>, <<" ","A","N","D"," ">>, <<"\"">>}

ParserQueries == {ConcatAll(ps) : ps \in SeqsUpTo(Pieces, MaxPieces)}

\* the queries preprocess_query is called with on its own: quoted phrases
\* and operators
DirectQueries ==
    {ConcatAll(ps) : ps \in SeqsUpTo({<<"\"","a"," ","b","\"">>, <<" ","A","N","D"," ">>}, MaxPieces)}

InitParser ==
    /\ search_query = <<>>
    /\ bsp = NewParser
    /\ parsed_query = NoTree
    /\ docs = <<>>
    /\ idx = 0
    /\ matching_docs = <<>>
    /\ warned = <<>>
    /\ raw_text = <<>>
    /\ norm_text = <<>>
    /\ verdict = FALSE
    /\ pc = "constructed"

\* the placeholder counter direct calls of preprocess_query may run up to
MaxPlaceholders == 4

\* bsp.parse_query(query), returning the tree or raising ValueError
CallParseQuery ==
    /\ pc \in {"constructed", "returned", "raised", "preprocessed"}
    /\ \E query \in ParserQueries :
          \E r \in {parse_query(bsp, query)} :
              /\ search_query' = query
              /\ bsp' = r.self
              /\ parsed_query' = r.tree
              /\ pc' = IF r.ok THEN "returned" ELSE "raised"
    /\ UNCHANGED <<docs, idx, matching_docs, warned, raw_text, norm_text, verdict>>

\* bsp.preprocess_query(query) called on its own: it adds to the table and
\* the counter as they stand, without the reset of parse_query;
\* search_query stays the query of the last parse_query call
CallPreprocessQuery ==
    /\ pc \in {"constructed", "returned", "raised", "preprocessed"}
    /\ \E query \in DirectQueries :
          \E pre \in {preprocess_query(bsp, query)} :
              /\ pre.self.placeholder_counter <= MaxPlaceholders
              /\ bsp' = pre.self
    /\ pc' = "preprocessed"
    /\ UNCHANGED <<search_query, parsed_query, docs, idx, matching_docs, warned,
                   raw_text, norm_text, verdict>>

NextParser ==
    \/ CallParseQuery
    \/ CallPreprocessQuery

SpecParser == InitParser /\ [][NextParser]_vars

----------------------------------------------------------------------------
(* SpecEval: evaluate_expression on a tree, a text and a phrase table      *)

T_program == <<"p","r","o","g","r","a","m">>

T_Program == <<"P","r","o","g","r","a","m">>

T_java == <<"j","a","v","a">>

T_learning == <<"l","e","a","r","n","i","n","g">>

T_ECOLE == <<"É","C","O","L","E">>

EvalTerms == {T_program, T_Program, T_java, T_learning, T_ECOLE, Placeholder(0)}

\* a term, or a negated term
EvalUnits == {Symbol(w) : w \in EvalTerms} \cup {Node("NOT", <<Symbol(w)>>) : w \in EvalTerms}

MaxArgs == 3

\* expr.args of any length from one child up: evaluate_expression iterates
\* whatever children the node holds
ArgLists == UNION {[1..k -> EvalUnits] : k \in 1..MaxArgs}

EvalTrees ==
    EvalUnits \cup {Node("AND", args) : args \in ArgLists}
              \cup {Node("OR", args) : args \in ArgLists}

EvalTexts == {<<"i"," ","k","n","o","w"," ","j","a","v","a"," ","p","r","o","g","r","a","m","m","i","n","g">>, <<"m","a","c","h","i","n","e"," ","l","e","a","r","n","i","n","g"," ","m","a","c","h","i","n","e","l","e","a","r","n","i","n","g">>, <<"j","a","v","a">>,
     <<"é","c","o","l","e"," ","c","a","f","é"," ","é","c","o","l","e","c","a","f","é">>}

EvalTables == {<<>>, Placeholder(0) :> <<"M","a","c","h","i","n","e"," ","L","e","a","r","n","i","n","g">>}

InitEval ==
    /\ search_query = <<>>
    /\ \E table \in EvalTables : bsp = [quoted_phrases |-> table, placeholder_counter |-> Cardinality(DOMAIN table)]
    /\ parsed_query \in EvalTrees
    /\ docs = <<>>
    /\ idx = 0
    /\ matching_docs = <<>>
    /\ warned = <<>>
    /\ raw_text = <<>>
    /\ norm_text \in EvalTexts
    /\ verdict = FALSE
    /\ pc = "evaluate"

Evaluate ==
    /\ pc = "evaluate"
    /\ verdict' = evaluate_expression(parsed_query, norm_text, bsp.quoted_phrases)
    /\ pc' = "evaluated"
    /\ UNCHANGED <<search_query, bsp, parsed_query, docs, idx, matching_docs, warned,
                   raw_text, norm_text>>

NextEval == Evaluate

SpecEval == InitEval /\ [][NextEval]_vars

----------------------------------------------------------------------------
(* SpecFlatten: flatten_json on one document                               *)

FlattenLeaves == {DStr(<<"x">>), DStr(<<"y">>), DStr(<<"z">>), DStr(<<>>), DNum(<<"7">>), DNull}

\* a leaf, or a leaf inside a dict or a list
FlattenValues ==
    FlattenLeaves \cup {DDict(<<"c">>, <<v>>) : v \in FlattenLeaves}
                  \cup {DList(<<v>>) : v \in FlattenLeaves}

MaxItems == 2

\* {"a": leaf, "b": [value, ...]}
FlattenDocs ==
    {DDict(<<"a", "b">>, <<leaf, DList(items)>>) :
        leaf \in FlattenLeaves, items \in SeqsUpTo(FlattenValues, MaxItems)}

InitFlatten ==
    /\ search_query = <<>>
    /\ bsp = NewParser
    /\ parsed_query = NoTree
    /\ \E doc \in FlattenDocs : docs = <<doc>>
    /\ idx = 0
    /\ matching_docs = <<>>
    /\ warned = <<>>
    /\ raw_text = <<>>
    /\ norm_text = <<>>
    /\ verdict = FALSE
    /\ pc = "flatten"

Flatten ==
    /\ pc = "flatten"
    /\ raw_text' = flatten_json(docs[1])
    /\ pc' = "flattened"
    /\ UNCHANGED <<search_query, bsp, parsed_query, docs, idx, matching_docs, warned,
                   norm_text, verdict>>

NextFlatten == Flatten

SpecFlatten == InitFlatten /\ [][NextFlatten]_vars

----------------------------------------------------------------------------
(* SpecNormalize: normalize on one string                                  *)

MaxWordLen == 3

\* an ASCII lowercase letter, a lowercase letter beyond ASCII, an uppercase
\* letter
WordLetters == {"a", "é", "F"}

Words(n) == UNION {[1..k -> WordLetters] : k \in 1..n}

S_HuggingFace == <<"H","u","g","g","i","n","g","F","a","c","e">>

S_Resume ==
    <<"\"","m","a","c","h","i","n","e"," ","l","e","a","r","n","i","n","g","\""," ","a","t"," ","w","w","w",".","x",".","y"," ","i","n"," ",".","n","e","t"," ","b","y"," ","m","e","@","x",".","o","r","g"," ","I","n","t","e","r","n","a","t","i","o","n","a","l","i","z","a","t","i","o","n","S","u","p","p","o","r","t">>

S_CafeBar == <<"c","a","f","é","B","a","r">>

S_CafeResume == <<"C","a","f","é"," ","R","é","s","u","m","é">>

S_OmegaNet == <<"Ω","m","e","g","a",".","n","e","t"," ","א","ב"," ","۰">>

NormalizeInputs ==
    {w1 \o w2 : w1 \in Words(MaxWordLen), w2 \in Words(MaxWordLen)}
        \cup {S_HuggingFace, Q_MachineLearning, S_Resume, S_CafeBar, S_CafeResume, S_OmegaNet}

InitNormalize ==
    /\ search_query = <<>>
    /\ bsp = NewParser
    /\ parsed_query = NoTree
    /\ docs = <<>>
    /\ idx = 0
    /\ matching_docs = <<>>
    /\ warned = <<>>
    /\ raw_text \in NormalizeInputs
    /\ norm_text = <<>>
    /\ verdict = FALSE
    /\ pc = "normalize"

Normalize ==
    /\ pc = "normalize"
    /\ norm_text' = normalize(raw_text)
    /\ pc' = "normalized"
    /\ UNCHANGED <<search_query, bsp, parsed_query, docs, idx, matching_docs, warned,
                   raw_text, verdict>>

NextNormalize == Normalize

SpecNormalize == InitNormalize /\ [][NextNormalize]_vars

----------------------------------------------------------------------------
(* Properties                                                              *)

\* the loop locals raw_text, norm_text and verdict belong to the document
\* processed last, and processing it did not raise
LastStepCompleted ==
    /\ pc \in {"scan", "done"}
    /\ idx > 0
    /\ (warned = <<>> \/ warned[Len(warned)] # idx)

\* the query is one quoted phrase: "..." with no quote inside
IsSinglePhrase(query) ==
    /\ Len(query) >= 3
    /\ query[1] = QUOTE
    /\ query[Len(query)] = QUOTE
    /\ \A i \in 2..(Len(query) - 1) : query[i] # QUOTE

PhraseOf(query) == SubSeq(query, 2, Len(query) - 1)

\* the verdict main reaches for a query on a normalized text
VerdictOf(query, text) ==
    LET r == main_parse(NewParser, query)
    IN  evaluate_expression(r.tree, text, r.self.quoted_phrases)

\* C1: when the query is a single quoted phrase p, every normalized text
\* that contains lowercase(p) as a contiguous substring is matched.
C1_PhraseMatchesSubstring ==
    (/\ LastStepCompleted
     /\ IsSinglePhrase(search_query)
     /\ Contains(norm_text, Lower(PhraseOf(search_query))))
        => verdict = TRUE

\* C2: the verdict on Not(child) is true exactly when the verdict on the
\* child is false.
C2_NotNegatesChild ==
    (LastStepCompleted /\ parsed_query.kind = "NOT")
        => verdict = ~evaluate_expression(parsed_query.args[1], norm_text, bsp.quoted_phrases)

SameQueries == {Q_MachineLearning, Q_machinelearning, Q_MachineAndLearning}

\* C3: the queries MachineLearning, machinelearning and (Machine AND Learning)
\* give the same verdict on every document.
C3_TreatedTheSame ==
    (LastStepCompleted /\ search_query \in SameQueries)
        => \A query \in SameQueries : VerdictOf(query, norm_text) = verdict

ChildVerdict(k) == evaluate_expression(parsed_query.args[k], norm_text, bsp.quoted_phrases)

\* C4: And(children) is true exactly when every child is true, and
\* Or(children) exactly when at least one child is true; an And or Or with
\* a single child has the verdict of that child.
C4_AndAllOrAny ==
    pc = "evaluated" =>
        /\ parsed_query.kind = "AND" => verdict = (\A k \in 1..Len(parsed_query.args) : ChildVerdict(k))
        /\ parsed_query.kind = "OR" => verdict = (\E k \in 1..Len(parsed_query.args) : ChildVerdict(k))
        /\ (parsed_query.kind \in {"AND", "OR"} /\ Len(parsed_query.args) = 1)
               => verdict = ChildVerdict(1)

\* an And of three children, two of them true and the last one false, has
\* been evaluated to false
C4_Witness ==
    /\ pc = "evaluated"
    /\ parsed_query.kind = "AND"
    /\ Len(parsed_query.args) = 3
    /\ ChildVerdict(1) /\ ChildVerdict(2) /\ ~ChildVerdict(3)
    /\ ~verdict

\* the term is a phrase placeholder recorded in the phrase table
IsPlaceholder(obj, table) == StartsWith(obj, QUOTED_PHRASE_) /\ obj \in DOMAIN table

TextJavaProgramming == <<"i"," ","k","n","o","w"," ","j","a","v","a"," ","p","r","o","g","r","a","m","m","i","n","g">>

\* C5: a term that is no phrase placeholder matches exactly when the
\* whole-word test or the substring test of the lowercased term succeeds;
\* "program" in "i know java programming" fails the whole-word test and
\* matches.
C5_WordThenSubstring ==
    (/\ pc = "evaluated"
     /\ parsed_query.kind = "Symbol"
     /\ ~IsPlaceholder(parsed_query.obj, bsp.quoted_phrases))
        => /\ verdict = (\/ WordBoundaryMatch(Lower(parsed_query.obj), norm_text)
                         \/ Contains(norm_text, Lower(parsed_query.obj)))
           /\ (parsed_query.obj = T_program /\ norm_text = TextJavaProgramming)
                 => (~WordBoundaryMatch(T_program, norm_text) /\ verdict)

\* "program" has been matched in "i know java programming" with no
\* whole-word occurrence
C5_Witness ==
    /\ pc = "evaluated"
    /\ parsed_query = Symbol(T_program)
    /\ norm_text = TextJavaProgramming
    /\ ~WordBoundaryMatch(T_program, norm_text)
    /\ verdict

\* the pairs <<i, j>> of quotes with one or more non-quote characters and
\* no quote between them
QuotePairs(query) ==
    {c \in (1..Len(query)) \X (1..Len(query)) :
        /\ query[c[1]] = QUOTE
        /\ query[c[2]] = QUOTE
        /\ c[2] > c[1] + 1
        /\ \A k \in (c[1] + 1)..(c[2] - 1) : query[k] # QUOTE}

\* the quoted spans of a query, left to right: a pair is a span unless its
\* opening quote closes a span
QuotedSpans(query) ==
    CHOOSE S \in SUBSET QuotePairs(query) :
        \A c \in QuotePairs(query) : c \in S <=> ~\E d \in S : d[2] = c[1]

\* C6: after a call of parse_query, successful or not, the phrase table
\* maps QUOTED_PHRASE_0 .. QUOTED_PHRASE_(k-1) to the k quoted spans of that
\* call's query, left to right, and holds nothing else.
C6_TableOfLastCall ==
    pc \in {"returned", "raised"} =>
        LET S == QuotedSpans(search_query)
        IN  /\ bsp.placeholder_counter = Cardinality(S)
            /\ DOMAIN bsp.quoted_phrases = {Placeholder(n) : n \in 0..(Cardinality(S) - 1)}
            /\ \A c \in S :
                  bsp.quoted_phrases[Placeholder(Cardinality({d \in S : d[1] < c[1]}))]
                      = SubSeq(search_query, c[1] + 1, c[2] - 1)

\* a call that raised has left the one phrase of its query in the table
C6_Witness ==
    /\ pc = "raised"
    /\ Cardinality(QuotedSpans(search_query)) = 1
    /\ bsp.placeholder_counter = 1

\* document i satisfies the parsed query
Matched(i) ==
    evaluate_expression(parsed_query, normalize(flatten_json(docs[i])), bsp.quoted_phrases)

\* the indices, in corpus order, of the processed documents that did not
\* raise and satisfy the query
KeptIndices ==
    SelectSeq(Indices(docs), LAMBDA i : i <= idx /\ i \notin Range(warned) /\ Matched(i))

C7_ResultIsFilter ==
    pc \in {"scan", "done"} =>
        matching_docs = [k \in 1..Len(KeptIndices) |-> docs[KeptIndices[k]]]

\* C7: the result list holds exactly the documents that satisfy the query,
\* once each and in corpus order, and the scan leaves the documents as
\* they were.
C7_StableFilter == []C7_ResultIsFilter /\ [][pc = "scan" => docs' = docs]_vars

\* a scan is over that kept some documents of the corpus and dropped others
C7_Witness ==
    /\ pc = "done"
    /\ warned = <<>>
    /\ Len(matching_docs) >= 1
    /\ Len(matching_docs) < Len(docs)

IsPrefix(a, b) == Len(a) <= Len(b) /\ SubSeq(b, 1, Len(a)) = a

\* C8: a document whose processing raises is skipped and reported, the
\* documents matched so far stay, and the loop goes on to the next document.
C8_SkipAndContinue ==
    [][(pc = "scan" /\ idx < Len(docs)) =>
          /\ pc' = "scan"
          /\ idx' = idx + 1
          /\ IsPrefix(matching_docs, matching_docs')
          /\ warned' # warned => (warned' = Append(warned, idx + 1)
                                    /\ matching_docs' = matching_docs)]_vars

\* the first document raised and the second was still processed and matched
C8_Witness ==
    /\ pc = "done"
    /\ warned = <<1>>
    /\ idx = 2
    /\ matching_docs = <<docs[2]>>

\* the string leaves of a document value, depth first, in original order
RECURSIVE StringLeaves(_)
RECURSIVE StringLeavesOfItems(_)
StringLeaves(x) ==
    IF x.t = "str" THEN <<x.s>>
    ELSE IF x.t \in {"dict", "list"} THEN StringLeavesOfItems(x.items)
    ELSE <<>>

StringLeavesOfItems(items) ==
    IF items = <<>> THEN <<>>
    ELSE StringLeaves(Head(items)) \o StringLeavesOfItems(Tail(items))

RECURSIVE SpaceJoined(_)
SpaceJoined(parts) ==
    IF parts = <<>> THEN <<>>
    ELSE IF Len(parts) = 1 THEN parts[1]
    ELSE parts[1] \o <<" ">> \o SpaceJoined(Tail(parts))

\* {"a": "x", "b": ["y", "z"]}
Doc_Example == DDict(<<"a", "b">>, <<DStr(<<"x">>), DList(<<DStr(<<"y">>), DStr(<<"z">>)>>)>>)

\* C9: flatten_json gives the string leaves joined by single spaces, depth
\* first and in original order, and skips every non-string leaf;
\* {"a": "x", "b": ["y", "z"]} gives "x y z".
C9_FlattenLeaves ==
    pc = "flattened" =>
        /\ raw_text = SpaceJoined(StringLeaves(docs[1]))
        /\ docs[1] = Doc_Example => raw_text = <<"x"," ","y"," ","z">>

\* the example document has been flattened
C9_Witness ==
    /\ pc = "flattened"
    /\ docs[1] = Doc_Example
    /\ raw_text = <<"x"," ","y"," ","z">>

\* a lowercase letter: cased, and str.lower() leaves it
IsLowercaseLetter(c) == IsCased(c) /\ LowerChar(c) = c

\* an uppercase letter: cased, and str.lower() changes it
IsUppercaseLetter(c) == IsCased(c) /\ LowerChar(c) # c

\* the places where a lowercase letter is followed by an uppercase one
CamelPlaces(s) ==
    {i \in 1..(Len(s) - 1) : IsLowercaseLetter(s[i]) /\ IsUppercaseLetter(s[i + 1])}

\* two words of letters joined in CamelCase
IsCamelPair(s) ==
    /\ \A i \in 1..Len(s) : IsAlpha(s[i])
    /\ Cardinality(CamelPlaces(s)) = 1

\* the two words, lowercased, with a space between
SplitForm(s) ==
    LET i == CHOOSE i \in CamelPlaces(s) : TRUE
    IN  Lower(SubSeq(s, 1, i)) \o <<" ">> \o Lower(SubSeq(s, i + 1, Len(s)))

\* C10: the normalized text of two words joined in CamelCase contains the
\* split lowercase form and the re-merged form, and a query for either
\* form matches it.
C10_SplitAndMerged ==
    (pc = "normalized" /\ IsCamelPair(raw_text)) =>
        /\ Contains(norm_text, SplitForm(raw_text))
        /\ Contains(norm_text, Lower(raw_text))
        /\ VerdictOf(SplitForm(raw_text), norm_text)
        /\ VerdictOf(Lower(raw_text), norm_text)

====
